---- MODULE Spec2Model ----
(***************************************************************************)
(* Model of the image-processor repository: the canvas geometry of the     *)
(* logo and headshot variants, the colour keyer, the processLogo and        *)
(* processHeadshot promises, the ImageCropper and the Home page.            *)
(*                                                                          *)
(* Numbers.  The JavaScript code computes with IEEE doubles.  Every value   *)
(* that occurs here is an integer below 2^31 or a quotient of two such      *)
(* integers, so Math.ceil, Math.round, Math.floor and the comparisons of    *)
(* quotients give the results of exact rational arithmetic; the model       *)
(* computes them on integers (a quotient n/d is kept as the pair n, d).     *)
(***************************************************************************)
EXTENDS Integers, Sequences, FiniteSets, TLC

\* ------------------------------------------------------------------ bounds
MaxW == 412
MaxH == 412

\* --------------------------------------------------------- Math.* on n/d
MathCeil(n, d) == (n + d - 1) \div d
MathFloor(n, d) == n \div d
MathRound(n, d) == (2 * n + d) \div (2 * d)
MathMax(a, b) == IF a > b THEN a ELSE b

\* ------------------------------------------------- program constants
LogoAspectNum == 5
LogoAspectDen == 2
LogoMinWidth == 400
LogoMinHeight == 160
SquareMinSize == 40
HeadMinWidth == 292
HeadMinHeight == 400
HeadRatioW == 73
HeadRatioH == 100

Dim(w, h) == [width |-> w, height |-> h]

\* ------------------------------------------- createRectangularLogo
\* lines 93-101: the base box that contains the source
rectBase_flipped(origWidth, origHeight, arN, arD) ==
    IF origWidth * arD < arN * origHeight
    THEN Dim(origWidth, MathCeil(origWidth * arD, arN))
    ELSE Dim(MathCeil(origHeight * arN, arD), origHeight)

rectBase(origWidth, origHeight, arN, arD) ==
    IF origWidth * arD > arN * origHeight
    THEN Dim(origWidth, MathCeil(origWidth * arD, arN))
    ELSE Dim(MathCeil(origHeight * arN, arD), origHeight)

\* lines 104-113: minimum enforcement, width first, then height
rectEnforceMin_none(base, arN, arD, minWidth, minHeight) == base

rectEnforceMin(base, arN, arD, minWidth, minHeight) ==
    IF base.width < minWidth \/ base.height < minHeight
    THEN LET b1 == IF base.width < minWidth
                   THEN Dim(minWidth, MathCeil(minWidth * arD, arN))
                   ELSE base
         IN  IF b1.height < minHeight
             THEN Dim(MathCeil(minHeight * arN, arD), minHeight)
             ELSE b1
    ELSE base

\* line 119: round the width up to the next multiple of 5
rectSnapWidth_floor(baseWidth) == MathFloor(baseWidth, 5) * 5

rectSnapWidth_next(baseWidth) == (MathFloor(baseWidth, 5) + 1) * 5

rectSnapWidth_same(baseWidth) == baseWidth

rectSnapWidth(baseWidth) == MathCeil(baseWidth, 5) * 5

\* lines 117-147: the 5:2 snapping.  baseHeight = (baseWidth * 2) / 5 is the
\* quotient hN/5; the two correction branches are recorded in oddFix, warned.
rectSnap_none(b, arN, arD) ==
    [width |-> b.width, height |-> b.height, oddFix |-> FALSE, warned |-> FALSE]

rectSnap(b, arN, arD) ==
    IF arN * 2 = arD * 5
    THEN LET w1  == rectSnapWidth(b.width)
             hN  == w1 * 2                      \* baseHeight = hN / 5
             odd == hN % 10 # 0                 \* baseHeight % 2 !== 0
             h2  == MathCeil(hN, 10) * 2        \* Math.ceil(baseHeight / 2) * 2
             \* after the odd branch: width = (h2 * 5) / 2, height = h2
             wR  == IF odd THEN MathRound(h2 * 5, 2) ELSE MathRound(w1, 1)
             hR  == IF odd THEN MathRound(h2, 1) ELSE MathRound(hN, 5)
             warn == wR * 2 # hR * 5            \* baseWidth / baseHeight !== 2.5
             units == MathMax(MathCeil(hR, 2), MathCeil(wR, 5))
         IN  [width  |-> IF warn THEN 5 * units ELSE wR,
              height |-> IF warn THEN 2 * units ELSE hR,
              oddFix |-> odd, warned |-> warn]
    ELSE [width |-> b.width, height |-> b.height, oddFix |-> FALSE, warned |-> FALSE]

\* lines 162-163: centring offsets
centre(canvasW, canvasH, w, h) ==
    [x |-> MathFloor(canvasW - w, 2), y |-> MathFloor(canvasH - h, 2)]

\* lines 74-175
createRectangularLogo(origWidth, origHeight, arN, arD, minWidth, minHeight) ==
    LET s == rectSnap(rectEnforceMin(rectBase(origWidth, origHeight, arN, arD),
                                     arN, arD, minWidth, minHeight), arN, arD)
        c == centre(s.width, s.height, origWidth, origHeight)
    IN  [width |-> s.width, height |-> s.height, x |-> c.x, y |-> c.y,
         oddFix |-> s.oddFix, warned |-> s.warned]

\* ----------------------------------------------------- createSquareLogo
\* lines 194-199: the side of the square
squareSize(origWidth, origHeight, minSize) ==
    LET s == MathMax(origWidth, origHeight)
    IN  IF s < minSize THEN minSize ELSE s

\* lines 185-222
createSquareLogo(origWidth, origHeight, minSize) ==
    LET s == squareSize(origWidth, origHeight, minSize)
        c == centre(s, s, origWidth, origHeight)
    IN  [width |-> s, height |-> s, x |-> c.x, y |-> c.y]

\* ------------------------------------- createHeadshot (padding version)
\* lines 73-85: the box with the target ratio that contains the source
headBase(origWidth, origHeight, rW, rH) ==
    IF origWidth * rH > rW * origHeight
    THEN Dim(origWidth, MathCeil(origWidth * rH, rW))
    ELSE Dim(MathCeil(origHeight * rW, rH), origHeight)

\* lines 88-128: minimum enforcement.  widthScale > heightScale compares
\* minWidth/newWidth with minHeight/newHeight; the 0.0001 tolerance test is
\* |newWidth/newHeight - rW/rH| > 1/10000.
headEnforceMin_widthOnly(n, minWidth, minHeight, rW, rH) ==
    IF n.width < minWidth
    THEN Dim(minWidth, MathCeil(minWidth * rH, rW))
    ELSE n

headEnforceMin(n, minWidth, minHeight, rW, rH) ==
    IF n.width < minWidth \/ n.height < minHeight
    THEN LET widthLimits == minWidth * n.height > minHeight * n.width
             w1 == IF widthLimits THEN minWidth ELSE MathCeil(minHeight * rW, rH)
             h1 == IF widthLimits THEN MathCeil(minWidth * rH, rW) ELSE minHeight
             w2 == IF w1 < minWidth THEN minWidth ELSE w1
             h2 == IF h1 < minHeight THEN minHeight ELSE h1
             diff == IF w2 * rH >= rW * h2 THEN w2 * rH - rW * h2
                                           ELSE rW * h2 - w2 * rH
             off == diff * 10000 > h2 * rH
         IN  IF off
             THEN IF w2 * minHeight > h2 * minWidth
                  THEN Dim(MathCeil(h2 * rW, rH), h2)
                  ELSE Dim(w2, MathCeil(w2 * rH, rW))
             ELSE Dim(w2, h2)
    ELSE n

\* lines 55-147
createHeadshot(origWidth, origHeight, minWidth, minHeight, rW, rH) ==
    LET n == headEnforceMin(headBase(origWidth, origHeight, rW, rH),
                            minWidth, minHeight, rW, rH)
        c == centre(n.width, n.height, origWidth, origHeight)
    IN  [width |-> n.width, height |-> n.height, x |-> c.x, y |-> c.y]

\* ------------------------- createHeadshot (CropperComponent.js version)
\* lines 342-345: the smallest positive multiple of rW that is >= origWidth
RECURSIVE cropperBaseWidth(_, _, _)
cropperBaseWidth(baseWidth, origWidth, rW) ==
    IF baseWidth < origWidth
    THEN cropperBaseWidth(baseWidth + rW, origWidth, rW)
    ELSE baseWidth

\* lines 366-395: the first canvas is resampled onto a canvas scaled by
\* scaleFactor = max(minWidth/baseWidth, minHeight/baseHeight)
cropperResize(baseWidth, baseHeight, minWidth, minHeight) ==
    LET widthLarger == minWidth * baseHeight > minHeight * baseWidth
        sN == IF widthLarger THEN minWidth ELSE minHeight
        sD == IF widthLarger THEN baseWidth ELSE baseHeight
    IN  Dim(MathRound(baseWidth * sN, sD), MathRound(baseHeight * sN, sD))

\* lines 329-399
createHeadshot_Cropper(origWidth, origHeight, minWidth, minHeight, rW, rH) ==
    LET baseWidth  == cropperBaseWidth(rW, origWidth, rW)
        baseHeight == (baseWidth * rH) \div rW
        c == centre(baseWidth, baseHeight, origWidth, origHeight)
        small == baseWidth < minWidth \/ baseHeight < minHeight
        r == cropperResize(baseWidth, baseHeight, minWidth, minHeight)
    IN  [width  |-> IF small THEN r.width ELSE baseWidth,
         height |-> IF small THEN r.height ELSE baseHeight,
         baseWidth |-> baseWidth, baseHeight |-> baseHeight,
         x |-> c.x, y |-> c.y, scaled |-> small]

\* ------------------------------------------------- createIcoFromSquare
\* line 235: const sizes = [40, 48, 64]
icoSizes == {40, 48, 64}

\* line 236: Math.max(...sizes)
largestSize == CHOOSE m \in icoSizes : \A k \in icoSizes : k <= m

\* lines 258-260 (and 475-477): scale = Math.min(size / w, size / h), which is
\* size / max(w, h); the scaled sides are Math.round(w * scale) and
\* Math.round(h * scale).  For a 0x0 source scale is Infinity and both
\* products are NaN: drawImage with NaN arguments draws nothing, recorded
\* here as a 0x0 drawing.
icoScaled_cover(origWidth, origHeight, size) ==
    LET d == IF origWidth < origHeight THEN origWidth ELSE origHeight
    IN  Dim(MathRound(origWidth * size, d), MathRound(origHeight * size, d))

icoScaled(origWidth, origHeight, size) ==
    IF origWidth = 0 /\ origHeight = 0
    THEN Dim(0, 0)
    ELSE LET d == MathMax(origWidth, origHeight)
         IN  Dim(MathRound(origWidth * size, d), MathRound(origHeight * size, d))

\* lines 233-271 (and 454-488)
createIcoFromSquare(origWidth, origHeight) ==
    LET sc == icoScaled(origWidth, origHeight, largestSize)
        c  == centre(largestSize, largestSize, sc.width, sc.height)
    IN  [width |-> largestSize, height |-> largestSize, x |-> c.x, y |-> c.y,
         scaledWidth |-> sc.width, scaledHeight |-> sc.height]

\* =================================================================
\* State
\* =================================================================
VARIABLES
    img,        \* decoded source image: [width, height]
    variant,    \* which create* function produced out ("none" before any)
    out,        \* the canvas that function set up and where it drew the source
    prev,       \* the canvas of the previous run when its output was fed back
    runs,       \* number of runs on this upload chain
    bitmap,     \* removeBackground: [width, height, data], data = RGBA bytes
    keyOpts,    \* removeBackground: [targetColor, tolerance]
    keyed,      \* removeBackground: the canvas after putImageData, or NoBitmap
    keyedBefore, \* the result and tolerance of the run before the slider moved
    run,        \* one processLogo / processHeadshot call: its arguments, the
                \* position of its callbacks and the variants made so far
    promise,    \* the promise that call returned
    cropper,    \* ImageCropper: its useState values, the displayed image and
                \* the last mouse event handled
    home,       \* Home (pages/index.js): its useState values
    jobs        \* Home: the async handler calls in flight, each with the
                \* values its closure captured and the await it stands at

fitVars == <<img, variant, out, prev, runs>>
keyVars == <<bitmap, keyOpts, keyed, keyedBefore>>
procVars == <<run, promise>>
uiVars == <<cropper, home, jobs>>
vars == <<img, variant, out, prev, runs, bitmap, keyOpts, keyed, keyedBefore,
          run, promise, cropper, home, jobs>>

NoOut == [width |-> 0, height |-> 0, x |-> 0, y |-> 0, oddFix |-> FALSE,
          warned |-> FALSE, scaled |-> FALSE, baseWidth |-> 0, baseHeight |-> 0,
          drawWidth |-> 0, drawHeight |-> 0]
NoBitmap == [width |-> 0, height |-> 0, data |-> <<>>]
NoKeyOpts == [targetColor |-> <<>>, tolerance |-> 0]
NoKeyedBefore == [data |-> <<>>, tolerance |-> 0]

\* a variant that was not made (null), and the value of a pending promise
Null == [canvas |-> NoOut,
         fill |-> [mode |-> "none", width |-> 0, height |-> 0],
         images |-> {}]
NoValue == [rectangular |-> Null, square |-> Null, ico |-> Null, headshot |-> Null]
NoRun == [kind |-> "none", pc |-> "idle",
          file |-> [readable |-> FALSE, decodable |-> FALSE, width |-> 0, height |-> 0],
          opts |-> [square |-> FALSE, ico |-> FALSE, transparent |-> FALSE],
          partial |-> NoValue, failed |-> FALSE]
NoPromise == [state |-> "none", value |-> NoValue, error |-> "", calls |-> 0]

\* CropperComponent.js lines 12-16: the useState values of ImageCropper
\* (resizing null is "null"); img is the offset size of the displayed
\* image, event the last mouse event handled and events their number
Rect(x, y, w, h) == [x |-> x, y |-> y, width |-> w, height |-> h]
NoCropper == [cropArea |-> Rect(0, 0, 0, 0), isDragging |-> FALSE,
              dragStart |-> [x |-> 0, y |-> 0], resizing |-> "null",
              imageSize |-> Dim(0, 0), img |-> Dim(0, 0),
              loaded |-> FALSE, event |-> "none", events |-> 0]

\* pages/index.js lines 378-392: the useState values of Home (null is "null",
\* a null file or result is NoFile).  A file is known by its name, by what
\* reading and decoding it gives (kind) and by whether it is the output of
\* the colour keyer; a result is known by the file it was computed from.
\* timers counts the pending setTimeout callbacks of copyToClipboard, clicks
\* the user events handled.
MaxJobs == 2
NoFile == [name |-> "null", kind |-> "none", keyed |-> FALSE]
NoHome == [activeTab |-> "logo", loading |-> FALSE, error |-> "null",
           success |-> "null", logoFile |-> NoFile, logoResults |-> NoFile,
           headshotFile |-> NoFile, headshotResult |-> NoFile,
           showCropper |-> FALSE, cropperType |-> "null",
           removeBackgroundOption |-> FALSE, timers |-> 0, clicks |-> 0]
FreeJob == [pc |-> "free", type |-> "null", file |-> NoFile, removeBg |-> FALSE,
            keyCalls |-> 0, processedFile |-> NoFile]
NoJobs == [j \in 1..MaxJobs |-> FreeJob]

\* sizes named by the examples of the documentation
ExampleSizes == {<<800, 200>>, <<1000, 400>>, <<1000, 10>>}
SourceSizes == ((1..MaxW) \X (1..MaxH)) \cup ExampleSizes

\* the result of a create* call in one record shape: the returned canvas,
\* where and at which size drawImage put the source on the first canvas
\* (baseWidth x baseHeight), and whether that canvas was then resampled
Canvas(r, odd, warn, scaled, bw, bh, dw, dh) ==
    [width |-> r.width, height |-> r.height, x |-> r.x, y |-> r.y,
     oddFix |-> odd, warned |-> warn, scaled |-> scaled,
     baseWidth |-> bw, baseHeight |-> bh,
     drawWidth |-> dw, drawHeight |-> dh]

\* processLogo, line 36: createRectangularLogo(img, 2.5, 400, 160, transparent)
RunRectangular(w, h) ==
    LET r == createRectangularLogo(w, h, LogoAspectNum, LogoAspectDen,
                                   LogoMinWidth, LogoMinHeight)
    IN  Canvas(r, r.oddFix, r.warned, FALSE, r.width, r.height, w, h)

\* processLogo, line 39: createSquareLogo(img, 40, transparent)
RunSquare(w, h) ==
    LET r == createSquareLogo(w, h, SquareMinSize)
    IN  Canvas(r, FALSE, FALSE, FALSE, r.width, r.height, w, h)

\* processHeadshot, line 29: createHeadshot(img, 292, 400, [73, 100])
RunHeadshot(w, h) ==
    LET r == createHeadshot(w, h, HeadMinWidth, HeadMinHeight, HeadRatioW, HeadRatioH)
    IN  Canvas(r, FALSE, FALSE, FALSE, r.width, r.height, w, h)

\* CropperComponent.js processHeadshot, line 303: createHeadshot(img, 292, 400, [73, 100])
RunHeadshotCropper(w, h) ==
    LET r == createHeadshot_Cropper(w, h, HeadMinWidth, HeadMinHeight,
                                    HeadRatioW, HeadRatioH)
    IN  Canvas(r, FALSE, FALSE, r.scaled, r.baseWidth, r.baseHeight, w, h)

\* processLogo, line 42: createIcoFromSquare(img, transparent)
RunIco(w, h) ==
    LET r == createIcoFromSquare(w, h)
    IN  Canvas(r, FALSE, FALSE, FALSE, r.width, r.height,
               r.scaledWidth, r.scaledHeight)

Run(v, w, h) ==
    CASE v = "rectangular"     -> RunRectangular(w, h)
      [] v = "ico"             -> RunIco(w, h)
      [] v = "square"          -> RunSquare(w, h)
      [] v = "headshot"        -> RunHeadshot(w, h)
      [] v = "headshotCropper" -> RunHeadshotCropper(w, h)

InitFit ==
    /\ \E s \in SourceSizes : img = Dim(s[1], s[2])
    /\ variant = "none"
    /\ out = NoOut
    /\ prev = NoOut
    /\ runs = 0
    /\ bitmap = NoBitmap
    /\ keyOpts = NoKeyOpts
    /\ keyed = NoBitmap
    /\ keyedBefore = NoKeyedBefore
    /\ run = NoRun
    /\ promise = NoPromise
    /\ cropper = NoCropper
    /\ home = NoHome
    /\ jobs = NoJobs

\* one create* call on the decoded upload
Create(v) ==
    /\ runs = 0
    /\ variant' = v
    /\ out' = Run(v, img.width, img.height)
    /\ prev' = prev
    /\ runs' = 1
    /\ UNCHANGED <<img, keyVars, procVars, uiVars>>

CreateRectangular == Create("rectangular")
CreateSquare == Create("square")
CreateHeadshot == Create("headshot")
CreateHeadshotCropper == Create("headshotCropper")
CreateIco == Create("ico")

\* the produced image is uploaded again and processed by the same function
Refit(v) ==
    /\ runs = 1
    /\ variant = v
    /\ img' = Dim(out.width, out.height)
    /\ out' = Run(v, out.width, out.height)
    /\ prev' = out
    /\ runs' = 2
    /\ UNCHANGED <<variant, keyVars, procVars, uiVars>>

RefitRectangular == Refit("rectangular")
RefitSquare == Refit("square")
RefitHeadshot == Refit("headshot")

NextFit ==
    \/ CreateRectangular
    \/ CreateSquare
    \/ CreateHeadshot
    \/ CreateHeadshotCropper
    \/ CreateIco
    \/ RefitRectangular
    \/ RefitSquare
    \/ RefitHeadshot

SpecFit == InitFit /\ [][NextFit]_vars

\* =================================================================
\* removeBackground (imageManipulation.js)
\* =================================================================
MaxPixels == 3

HexLower == <<"0", "1", "2", "3", "4", "5", "6", "7", "8", "9",
              "a", "b", "c", "d", "e", "f">>
HexUpper == <<"0", "1", "2", "3", "4", "5", "6", "7", "8", "9",
              "A", "B", "C", "D", "E", "F">>

\* the value of one hexadecimal digit, as parseInt(.., 16) reads it
HexDigit(c) == (CHOOSE i \in 1..16 : HexLower[i] = c \/ HexUpper[i] = c) - 1

\* parseInt(s, 16) of a string of hexadecimal digits (a sequence of characters)
RECURSIVE parseInt16(_)
parseInt16(s) ==
    IF s = <<>> THEN 0
    ELSE 16 * parseInt16(SubSeq(s, 1, Len(s) - 1)) + HexDigit(s[Len(s)])

\* String.prototype.slice(from, to): 0-based, half open
slice(s, from, to) == SubSeq(s, from + 1, to)

\* lines 65-67: the target colour
targetRGB_swapped(targetColor) ==
    [r |-> parseInt16(slice(targetColor, 1, 3)),
     g |-> parseInt16(slice(targetColor, 5, 7)),
     b |-> parseInt16(slice(targetColor, 3, 5))]

targetRGB(targetColor) ==
    [r |-> parseInt16(slice(targetColor, 1, 3)),
     g |-> parseInt16(slice(targetColor, 3, 5)),
     b |-> parseInt16(slice(targetColor, 5, 7))]

\* floor(Math.sqrt(n)) for 0 <= n <= 3 * 255^2
\* (bisection on lo..hi, the largest k with k * k <= n)
RECURSIVE ISqrtIn(_, _, _)
ISqrtIn(n, lo, hi) ==
    IF lo = hi THEN lo
    ELSE LET mid == (lo + hi + 1) \div 2
         IN  IF mid * mid <= n THEN ISqrtIn(n, mid, hi) ELSE ISqrtIn(n, lo, mid - 1)

ISqrt(n) == ISqrtIn(n, 0, 442)

\* lines 90-97: distance < tolerance.  tolerance is an integer (the page
\* stores parseInt of the slider value), and for an integer t
\* Math.sqrt(n) < t exactly when floor(Math.sqrt(n)) < t.
similar_orEqual(pixelR, pixelG, pixelB, t, tolerance) ==
    LET n == (pixelR - t.r) * (pixelR - t.r) + (pixelG - t.g) * (pixelG - t.g)
             + (pixelB - t.b) * (pixelB - t.b)
    IN  tolerance >= 0 /\ n <= tolerance * tolerance

similar_inverted(pixelR, pixelG, pixelB, t, tolerance) ==
    LET n == (pixelR - t.r) * (pixelR - t.r) + (pixelG - t.g) * (pixelG - t.g)
             + (pixelB - t.b) * (pixelB - t.b)
    IN  n > tolerance * tolerance

similar(pixelR, pixelG, pixelB, t, tolerance) ==
    LET n == (pixelR - t.r) * (pixelR - t.r) + (pixelG - t.g) * (pixelG - t.g)
             + (pixelB - t.b) * (pixelB - t.b)
    IN  ISqrt(n) < tolerance

\* lines 84-100: the loop over data, i += 4; data[i] is data[i + 1] here
RECURSIVE keyLoop(_, _, _, _)
keyLoop(data, i, t, tolerance) ==
    IF i < Len(data)
    THEN keyLoop(IF similar(data[i + 1], data[i + 2], data[i + 3], t, tolerance)
                 THEN [data EXCEPT ![i + 4] = 0]
                 ELSE data,
                 i + 4, t, tolerance)
    ELSE data

\* lines 58-107: the canvas has the size of img, holds its pixels
\* (drawImage, getImageData) and gets the keyed data back (putImageData)
removeBackground_transposed(image, options) ==
    [width  |-> image.height,
     height |-> image.width,
     data   |-> keyLoop(image.data, 0, targetRGB(options.targetColor),
                        options.tolerance)]

removeBackground(image, options) ==
    [width  |-> image.width,
     height |-> image.height,
     data   |-> keyLoop(image.data, 0, targetRGB(options.targetColor),
                        options.tolerance)]

\* pixels, target colours and tolerances of the checked bitmaps
Palette == {<<255, 255, 255, 255>>, <<250, 250, 250, 200>>, <<0, 0, 0, 255>>,
            <<0, 0, 0, 128>>, <<3, 4, 0, 255>>, <<255, 255, 255, 0>>}
TargetColors == {<<"#", "F", "F", "F", "F", "F", "F">>,
                 <<"#", "0", "0", "0", "0", "0", "0">>,
                 <<"#", "0", "3", "0", "4", "0", "0">>,
                 <<"#", "f", "a", "f", "a", "f", "a">>}
Tolerances == {0, 5, 6, 30}

RECURSIVE Flatten(_)
Flatten(pixels) ==
    IF pixels = <<>> THEN <<>> ELSE Head(pixels) \o Flatten(Tail(pixels))

InitKey ==
    /\ img = Dim(0, 0)
    /\ variant = "none"
    /\ out = NoOut
    /\ prev = NoOut
    /\ runs = 0
    /\ \E w \in 1..MaxPixels, h \in 1..MaxPixels :
          /\ w * h <= MaxPixels
          /\ \E px \in [1..(w * h) -> Palette] :
                bitmap = [width |-> w, height |-> h, data |-> Flatten(px)]
    /\ \E c \in TargetColors, t \in Tolerances :
          keyOpts = [targetColor |-> c, tolerance |-> t]
    /\ keyed = NoBitmap
    /\ keyedBefore = NoKeyedBefore
    /\ run = NoRun
    /\ promise = NoPromise
    /\ cropper = NoCropper
    /\ home = NoHome
    /\ jobs = NoJobs

\* removeBackground(img, {targetColor, tolerance})
RemoveBackground ==
    /\ keyed = NoBitmap
    /\ keyed' = removeBackground(bitmap, keyOpts)
    /\ UNCHANGED <<bitmap, keyOpts, keyedBefore, fitVars, procVars, uiVars>>

\* the tolerance slider is moved and the same file is processed again
\* (removeBackgroundAI reads the original file each time)
Rekey ==
    /\ keyed # NoBitmap
    /\ keyedBefore = NoKeyedBefore
    /\ \E t \in Tolerances :
          /\ keyOpts' = [keyOpts EXCEPT !.tolerance = t]
          /\ keyed' = removeBackground(bitmap, keyOpts')
    /\ keyedBefore' = [data |-> keyed.data, tolerance |-> keyOpts.tolerance]
    /\ UNCHANGED <<bitmap, fitVars, procVars, uiVars>>

NextKey == RemoveBackground \/ Rekey

SpecKey == InitKey /\ [][NextKey]_vars

\* =================================================================
\* processLogo (part_000 lines 18-62), processHeadshot (part_002 15-44)
\* =================================================================
\* lines 153-159: clearRect or white fillRect over (0, 0, canvas.width,
\* canvas.height); a cleared canvas is transparent
Fill(transparent, canvasW, canvasH) ==
    [mode |-> IF transparent THEN "transparent" ELSE "white",
     width |-> canvasW, height |-> canvasH]

\* line 174: canvas.toDataURL('image/png') encodes one image, the canvas
toDataURL(canvas) == {<<canvas.width, canvas.height>>}

Rendition(canvas, transparent) ==
    [canvas |-> canvas,
     fill   |-> Fill(transparent, canvas.width, canvas.height),
     images |-> toDataURL(canvas)]

\* line 36
callRectangular(w, h, opts) == Rendition(RunRectangular(w, h), opts.transparent)

\* line 39
callSquare_white(w, h, opts) == Rendition(RunSquare(w, h), FALSE)

callSquare(w, h, opts) == Rendition(RunSquare(w, h), opts.transparent)

\* line 42: the condition ico && square, and the call
icoRequested(opts) == opts.ico /\ opts.square

callIco(w, h, opts) == Rendition(RunIco(w, h), opts.transparent)

\* part_002 line 29; createHeadshot takes no background option and fills
\* white (lines 134-136)
callHeadshot(w, h, opts) == Rendition(RunHeadshot(w, h), FALSE)

\* the resolve and reject functions of new Promise(...): only the first
\* call settles the promise
resolve(p, v) ==
    IF p.state = "pending"
    THEN [state |-> "fulfilled", value |-> v, error |-> "", calls |-> p.calls + 1]
    ELSE [p EXCEPT !.calls = @ + 1]

reject(p, e) ==
    IF p.state = "pending"
    THEN [state |-> "rejected", value |-> NoValue, error |-> e, calls |-> p.calls + 1]
    ELSE [p EXCEPT !.calls = @ + 1]

\* lines 49-51: catch (error) { reject(error) } around the create* calls
catchCreate_partial(p, partial) == resolve(p, partial)

catchCreate(p, partial) == reject(p, "error")

\* uploads: sizes of the decoded image; an image can decode with no
\* intrinsic size (width or height 0)
DegenerateSizes == {<<0, 0>>, <<0, 10>>, <<10, 0>>}
ProcessSizes == {<<1, 161>>, <<10, 10>>, <<100, 100>>, <<800, 200>>, <<1000, 10>>}
                  \cup DegenerateSizes
Files == {[readable |-> r, decodable |-> d, width |-> s[1], height |-> s[2]] :
             r \in BOOLEAN, d \in BOOLEAN, s \in ProcessSizes}
Options == [square : BOOLEAN, ico : BOOLEAN, transparent : BOOLEAN]

InitProcess ==
    /\ img = Dim(0, 0)
    /\ variant = "none"
    /\ out = NoOut
    /\ prev = NoOut
    /\ runs = 0
    /\ bitmap = NoBitmap
    /\ keyOpts = NoKeyOpts
    /\ keyed = NoBitmap
    /\ keyedBefore = NoKeyedBefore
    /\ \E k \in {"logo", "headshot"}, f \in Files, o \in Options :
          run = [NoRun EXCEPT !.kind = k, !.file = f, !.opts = o]
    /\ promise = NoPromise
    /\ cropper = NoCropper
    /\ home = NoHome
    /\ jobs = NoJobs

Pending == [state |-> "pending", value |-> NoValue, error |-> "", calls |-> 0]

\* lines 28-29, 60: new Promise, new FileReader, reader.readAsDataURL(file)
processLogo ==
    /\ run.kind = "logo" /\ run.pc = "idle"
    /\ run' = [run EXCEPT !.pc = "reading"]
    /\ promise' = Pending
    /\ UNCHANGED <<fitVars, keyVars, uiVars>>

processHeadshot ==
    /\ run.kind = "headshot" /\ run.pc = "idle"
    /\ run' = [run EXCEPT !.pc = "reading"]
    /\ promise' = Pending
    /\ UNCHANGED <<fitVars, keyVars, uiVars>>

\* lines 30-32, 54: reader.onload creates the Image and sets img.src
readerOnload ==
    /\ run.pc = "reading" /\ run.file.readable
    /\ run' = [run EXCEPT !.pc = "decoding"]
    /\ UNCHANGED <<promise, fitVars, keyVars, uiVars>>

\* line 59
readerOnerror ==
    /\ run.pc = "reading" /\ ~run.file.readable
    /\ promise' = reject(promise, "Failed to read file")
    /\ run' = [run EXCEPT !.pc = "end", !.failed = TRUE]
    /\ UNCHANGED <<fitVars, keyVars, uiVars>>

\* line 53
imgOnerror ==
    /\ run.pc = "decoding" /\ ~run.file.decodable
    /\ promise' = reject(promise, "Failed to load image")
    /\ run' = [run EXCEPT !.pc = "end", !.failed = TRUE]
    /\ UNCHANGED <<fitVars, keyVars, uiVars>>

\* a create* call returned (made = TRUE) or threw inside the try block
Made(made, field, rendition, nextPc) ==
    IF made
    THEN /\ run' = [run EXCEPT !.partial[field] = rendition, !.pc = nextPc]
         /\ promise' = promise
    ELSE /\ run' = [run EXCEPT !.pc = "end", !.failed = TRUE]
         /\ promise' = catchCreate(promise, run.partial)

\* lines 33-36: img.onload up to the first await
imgOnloadLogo ==
    /\ run.kind = "logo" /\ run.pc = "decoding" /\ run.file.decodable
    /\ img' = Dim(run.file.width, run.file.height)
    /\ \E made \in BOOLEAN :
          Made(made, "rectangular",
               callRectangular(run.file.width, run.file.height, run.opts),
               "awaitRectangular")
    /\ UNCHANGED <<variant, out, prev, runs, keyVars, uiVars>>

\* lines 38-39, and 41-48 when square is false (no await in between)
afterRectangular ==
    /\ run.pc = "awaitRectangular"
    /\ IF run.opts.square
       THEN \E made \in BOOLEAN :
               Made(made, "square", callSquare(img.width, img.height, run.opts),
                    "awaitSquare")
       ELSE IF icoRequested(run.opts)
       THEN \E made \in BOOLEAN :
               Made(made, "ico", callIco(img.width, img.height, run.opts),
                    "awaitIco")
       ELSE /\ promise' = resolve(promise, run.partial)
            /\ run' = [run EXCEPT !.pc = "end"]
    /\ UNCHANGED <<fitVars, keyVars, uiVars>>

\* lines 41-42, and 44-48 when no favicon is made
afterSquare ==
    /\ run.pc = "awaitSquare"
    /\ IF icoRequested(run.opts)
       THEN \E made \in BOOLEAN :
               Made(made, "ico", callIco(img.width, img.height, run.opts),
                    "awaitIco")
       ELSE /\ promise' = resolve(promise, run.partial)
            /\ run' = [run EXCEPT !.pc = "end"]
    /\ UNCHANGED <<fitVars, keyVars, uiVars>>

\* lines 44-48
afterIco ==
    /\ run.pc = "awaitIco"
    /\ promise' = resolve(promise, run.partial)
    /\ run' = [run EXCEPT !.pc = "end"]
    /\ UNCHANGED <<fitVars, keyVars, uiVars>>

\* part_002 lines 27-29: img.onload up to the await
imgOnloadHeadshot ==
    /\ run.kind = "headshot" /\ run.pc = "decoding" /\ run.file.decodable
    /\ img' = Dim(run.file.width, run.file.height)
    /\ \E made \in BOOLEAN :
          Made(made, "headshot",
               callHeadshot(run.file.width, run.file.height, run.opts),
               "awaitHeadshot")
    /\ UNCHANGED <<variant, out, prev, runs, keyVars, uiVars>>

\* part_002 line 30
afterHeadshot ==
    /\ run.pc = "awaitHeadshot"
    /\ promise' = resolve(promise, run.partial)
    /\ run' = [run EXCEPT !.pc = "end"]
    /\ UNCHANGED <<fitVars, keyVars, uiVars>>

NextProcess ==
    \/ processLogo
    \/ processHeadshot
    \/ readerOnload
    \/ readerOnerror
    \/ imgOnerror
    \/ imgOnloadLogo
    \/ afterRectangular
    \/ afterSquare
    \/ afterIco
    \/ imgOnloadHeadshot
    \/ afterHeadshot

SpecProcess == InitProcess /\ [][NextProcess]_vars

\* =================================================================
\* ImageCropper (CropperComponent.js lines 11-157)
\* =================================================================
\* Mouse positions (clientX, clientY) and offset sizes are integers, so the
\* Math.floor calls of lines 122-125 and 144-145 leave their arguments as
\* they are; 0.8 * n floors to floor(4n / 5).
MaxMouse == 1
MouseGrid == 40
MousePos == {k * MouseGrid : k \in 0..MaxMouse}

\* the number of mouse events handled in one explored session
MaxEvents == 5

\* the offset sizes of the displayed image (one is smaller than the 50 pixel
\* minimum of the crop box)
DisplaySizes == {<<40, 40>>, <<100, 80>>, <<120, 60>>}

Handles == {"nw", "ne", "sw", "se"}

\* resizing.includes(ch) for a handle name
includes(handle, ch) ==
    CASE ch = "n" -> handle \in {"nw", "ne"}
      [] ch = "s" -> handle \in {"sw", "se"}
      [] ch = "w" -> handle \in {"nw", "sw"}
      [] ch = "e" -> handle \in {"ne", "se"}

\* lines 39-51
initCropArea(c) ==
    LET width  == MathFloor(c.img.width * 4, 5)
        height == MathFloor(c.img.height * 4, 5)
        x == MathFloor(c.img.width - width, 2)
        y == MathFloor(c.img.height - height, 2)
    IN  [c EXCEPT !.cropArea = Rect(x, y, width, height),
                  !.imageSize = Dim(c.img.width, c.img.height)]

\* lines 54-74: target is the handle under the pointer, or "box"
onMouseDown(c, target, clientX, clientY) ==
    IF target \in Handles
    THEN [c EXCEPT !.resizing = target, !.isDragging = TRUE,
                   !.dragStart = [x |-> clientX, y |-> clientY]]
    ELSE [c EXCEPT !.isDragging = TRUE,
                   !.dragStart = [x |-> clientX, y |-> clientY]]

\* lines 85-125: the resized crop area
resizeCropArea(cropArea, resizing, deltaX, deltaY, imageSize) ==
    LET a1 == IF includes(resizing, "n")
              THEN [cropArea EXCEPT !.y = @ + deltaY, !.height = @ - deltaY]
              ELSE IF includes(resizing, "s")
              THEN [cropArea EXCEPT !.height = @ + deltaY]
              ELSE cropArea
        a2 == IF includes(resizing, "w")
              THEN [a1 EXCEPT !.x = @ + deltaX, !.width = @ - deltaX]
              ELSE IF includes(resizing, "e")
              THEN [a1 EXCEPT !.width = @ + deltaX]
              ELSE a1
        a3 == IF a2.width < 50 THEN [a2 EXCEPT !.width = 50] ELSE a2
        a4 == IF a3.height < 50 THEN [a3 EXCEPT !.height = 50] ELSE a3
        a5 == IF a4.x < 0 THEN [a4 EXCEPT !.width = @ + a4.x, !.x = 0] ELSE a4
        a6 == IF a5.y < 0 THEN [a5 EXCEPT !.height = @ + a5.y, !.y = 0] ELSE a5
        a7 == IF a6.x + a6.width > imageSize.width
              THEN [a6 EXCEPT !.width = imageSize.width - a6.x] ELSE a6
        a8 == IF a7.y + a7.height > imageSize.height
              THEN [a7 EXCEPT !.height = imageSize.height - a7.y] ELSE a7
    IN  a8

\* lines 130-147: the moved crop area
moveCropArea_noRightClamp(cropArea, deltaX, deltaY, imageSize) ==
    LET x0 == cropArea.x + deltaX
        y0 == cropArea.y + deltaY
        x1 == IF x0 < 0 THEN 0 ELSE x0
        y1 == IF y0 < 0 THEN 0 ELSE y0
    IN  [cropArea EXCEPT !.x = x1, !.y = y1]

moveCropArea(cropArea, deltaX, deltaY, imageSize) ==
    LET x0 == cropArea.x + deltaX
        y0 == cropArea.y + deltaY
        x1 == IF x0 < 0 THEN 0 ELSE x0
        y1 == IF y0 < 0 THEN 0 ELSE y0
        x2 == IF x1 + cropArea.width > imageSize.width
              THEN imageSize.width - cropArea.width ELSE x1
        y2 == IF y1 + cropArea.height > imageSize.height
              THEN imageSize.height - cropArea.height ELSE y1
    IN  [cropArea EXCEPT !.x = x2, !.y = y2]

\* lines 80-150: the body of handleMouseMove after the isDragging test
dragTo(c, clientX, clientY) ==
    LET deltaX == clientX - c.dragStart.x
        deltaY == clientY - c.dragStart.y
    IN  [c EXCEPT !.cropArea =
                      IF c.resizing # "null"
                      THEN resizeCropArea(c.cropArea, c.resizing, deltaX, deltaY,
                                          c.imageSize)
                      ELSE moveCropArea(c.cropArea, deltaX, deltaY, c.imageSize),
                  !.dragStart = [x |-> clientX, y |-> clientY]]

\* lines 77-151
onMouseMove_noGuard(c, clientX, clientY) == dragTo(c, clientX, clientY)

onMouseMove(c, clientX, clientY) ==
    IF ~c.isDragging THEN c ELSE dragTo(c, clientX, clientY)

\* lines 154-157
onMouseUp(c) == [c EXCEPT !.isDragging = FALSE, !.resizing = "null"]

InitCropper ==
    /\ img = Dim(0, 0)
    /\ variant = "none"
    /\ out = NoOut
    /\ prev = NoOut
    /\ runs = 0
    /\ bitmap = NoBitmap
    /\ keyOpts = NoKeyOpts
    /\ keyed = NoBitmap
    /\ keyedBefore = NoKeyedBefore
    /\ run = NoRun
    /\ promise = NoPromise
    /\ \E s \in DisplaySizes : cropper = [NoCropper EXCEPT !.img = Dim(s[1], s[2])]
    /\ home = NoHome
    /\ jobs = NoJobs

\* lines 23-29: the image has loaded (img.complete, or img.onload fires)
imageLoaded ==
    /\ ~cropper.loaded
    /\ cropper' = [initCropArea(cropper) EXCEPT !.loaded = TRUE, !.event = "init"]
    /\ UNCHANGED <<fitVars, keyVars, procVars, home, jobs>>

\* line 231 (onMouseDown of the crop box, which contains the four handles)
handleMouseDown ==
    /\ cropper.events < MaxEvents
    /\ \E target \in Handles \cup {"box"}, clientX \in MousePos, clientY \in MousePos :
          cropper' = [onMouseDown(cropper, target, clientX, clientY)
                         EXCEPT !.event = "mousedown", !.events = @ + 1]
    /\ UNCHANGED <<fitVars, keyVars, procVars, home, jobs>>

\* line 199 (document mousemove listener)
handleMouseMove ==
    /\ cropper.events < MaxEvents
    /\ \E clientX \in MousePos, clientY \in MousePos :
          cropper' = [onMouseMove(cropper, clientX, clientY)
                         EXCEPT !.event = "mousemove", !.events = @ + 1]
    /\ UNCHANGED <<fitVars, keyVars, procVars, home, jobs>>

\* line 200 (document mouseup listener)
handleMouseUp ==
    /\ cropper.events < MaxEvents
    /\ cropper' = [onMouseUp(cropper) EXCEPT !.event = "mouseup", !.events = @ + 1]
    /\ UNCHANGED <<fitVars, keyVars, procVars, home, jobs>>

NextCropper ==
    \/ imageLoaded
    \/ handleMouseDown
    \/ handleMouseMove
    \/ handleMouseUp

SpecCropper == InitCropper /\ [][NextCropper]_vars

\* =================================================================
\* Home (pages/index.js lines 377-574 and the controls of lines 600-950)
\* =================================================================
\* Left out: transparentBg, bgColor, bgRemovalTolerance and cropperImage,
\* which the handlers below only pass on.
MaxClicks == 6
MaxTimers == 1

\* the files a user picks: one that decodes, one that decodes to an image
\* getImageData cannot read (of width 0: IndexSizeError; ctx.getImageData in
\* removeBackground, imageManipulation.js line 80, throws), one that does
\* not decode
Uploads == {[name |-> "a.png", kind |-> "good", keyed |-> FALSE],
            [name |-> "b.svg", kind |-> "empty", keyed |-> FALSE],
            [name |-> "c.txt", kind |-> "undecodable", keyed |-> FALSE]}

\* line 451: new File([blob], 'cropped_logo.png' or 'cropped_headshot.png')
CroppedFile(type) ==
    [name |-> IF type = "logo" THEN "cropped_logo.png" ELSE "cropped_headshot.png",
     kind |-> "good", keyed |-> FALSE]

\* lines 490-496 (and 535-541): the keyed PNG made into a File; name keeps
\* the name of the file it was keyed from
BgRemoved(file) == [name |-> file.name, kind |-> "good", keyed |-> TRUE]

\* lines 498-505: the file handed to processLogo / processHeadshot
fileForProcess_original(job) == job.file

fileForProcess(job) == IF job.removeBg THEN BgRemoved(job.file) ELSE job.file

\* lines 471-496 (and 516-541): handleLogoSubmit / handleHeadshotSubmit up to
\* the first await, for the file and the option value its closure holds
submitStart(h, job, type, fileToProcess, removeBg) ==
    IF fileToProcess = NoFile
    THEN [home |-> [h EXCEPT !.error = IF type = "logo"
                                        THEN "Please select a logo file"
                                        ELSE "Please select a headshot file"],
          job  |-> job]
    ELSE LET j0 == [pc |-> "free", type |-> type, file |-> fileToProcess,
                    removeBg |-> removeBg, keyCalls |-> 0, processedFile |-> NoFile]
         IN  [home |-> [h EXCEPT !.loading = TRUE, !.error = "null"],
              job  |-> IF removeBg
                       THEN [j0 EXCEPT !.pc = "keying", !.keyCalls = 1]
                       ELSE [j0 EXCEPT !.pc = "processing",
                                       !.processedFile = fileForProcess(j0)]]

\* lines 507-513 (and 549-555): the results are stored, then finally
submitResolved(h, job) ==
    LET h1 == IF job.type = "logo"
              THEN [h EXCEPT !.logoResults = job.processedFile,
                             !.success = "Logo processed successfully!"]
              ELSE [h EXCEPT !.headshotResult = job.processedFile,
                             !.success = "Headshot processed successfully!"]
    IN  [h1 EXCEPT !.loading = FALSE]

\* lines 509-513 (and 551-555): catch, then finally
submitRejected(h, job) ==
    [h EXCEPT !.error = IF job.type = "logo" THEN "Error processing logo: "
                                             ELSE "Error processing headshot: ",
              !.loading = FALSE]

InitHome ==
    /\ img = Dim(0, 0)
    /\ variant = "none"
    /\ out = NoOut
    /\ prev = NoOut
    /\ runs = 0
    /\ bitmap = NoBitmap
    /\ keyOpts = NoKeyOpts
    /\ keyed = NoBitmap
    /\ keyedBefore = NoKeyedBefore
    /\ run = NoRun
    /\ promise = NoPromise
    /\ cropper = NoCropper
    /\ home = NoHome
    /\ jobs = NoJobs

homeFrame == UNCHANGED <<fitVars, keyVars, procVars, cropper>>

\* a user event can be handled: the tabs are rendered (line 588: the cropper
\* replaces them while showCropper is true)
TabsShown == ~home.showCropper /\ home.clicks < MaxClicks

Clicked(h) == [h EXCEPT !.clicks = @ + 1]

\* the first slot of jobs that holds no call in flight
HasFreeJob == \E j \in 1..MaxJobs : jobs[j].pc = "free"
FreeSlot == CHOOSE j \in 1..MaxJobs :
                /\ jobs[j].pc = "free"
                /\ \A k \in 1..(j - 1) : jobs[k].pc # "free"

\* lines 402-417; the input is on the logo tab (line 640)
handleLogoChange ==
    /\ TabsShown /\ home.activeTab = "logo"
    /\ \E file \in Uploads :
          home' = Clicked([home EXCEPT !.logoFile = file, !.logoResults = NoFile,
                                       !.error = "null", !.success = "null"])
    /\ UNCHANGED jobs
    /\ homeFrame

\* lines 419-434; the input is on the headshot tab (line 841)
handleHeadshotChange ==
    /\ TabsShown /\ home.activeTab = "headshot"
    /\ \E file \in Uploads :
          home' = Clicked([home EXCEPT !.headshotFile = file,
                                       !.headshotResult = NoFile,
                                       !.error = "null", !.success = "null"])
    /\ UNCHANGED jobs
    /\ homeFrame

\* lines 604, 610
setActiveTab ==
    /\ TabsShown
    /\ \E tab \in {"logo", "headshot"} :
          /\ tab # home.activeTab
          /\ home' = Clicked([home EXCEPT !.activeTab = tab])
    /\ UNCHANGED jobs
    /\ homeFrame

\* lines 682, 869: the remove-background checkbox
setRemoveBackgroundOption ==
    /\ TabsShown
    /\ home' = Clicked([home EXCEPT !.removeBackgroundOption = ~@])
    /\ UNCHANGED jobs
    /\ homeFrame

\* lines 471-505, from the submit button of line 727 (disabled while loading
\* or without a file)
handleLogoSubmit ==
    /\ TabsShown /\ home.activeTab = "logo"
    /\ ~(home.loading \/ home.logoFile = NoFile)
    /\ HasFreeJob
    /\ LET r == submitStart(home, jobs[FreeSlot], "logo", home.logoFile,
                            home.removeBackgroundOption)
       IN  /\ home' = Clicked(r.home)
           /\ jobs' = [jobs EXCEPT ![FreeSlot] = r.job]
    /\ homeFrame

\* lines 516-547, from the submit button of line 914
handleHeadshotSubmit ==
    /\ TabsShown /\ home.activeTab = "headshot"
    /\ ~(home.loading \/ home.headshotFile = NoFile)
    /\ HasFreeJob
    /\ LET r == submitStart(home, jobs[FreeSlot], "headshot", home.headshotFile,
                            home.removeBackgroundOption)
       IN  /\ home' = Clicked(r.home)
           /\ jobs' = [jobs EXCEPT ![FreeSlot] = r.job]
    /\ homeFrame

\* lines 436-439, from the Crop Image buttons of lines 650-660 and 851-861
handleCrop ==
    /\ TabsShown
    /\ (IF home.activeTab = "logo" THEN home.logoFile ELSE home.headshotFile) # NoFile
    /\ home' = Clicked([home EXCEPT !.cropperType = home.activeTab,
                                    !.showCropper = TRUE])
    /\ UNCHANGED jobs
    /\ homeFrame

\* lines 467-469
handleCropCancel ==
    /\ home.showCropper /\ home.clicks < MaxClicks
    /\ home' = Clicked([home EXCEPT !.showCropper = FALSE])
    /\ UNCHANGED jobs
    /\ homeFrame

\* lines 441-448: handleCropComplete up to the await of fetch
handleCropComplete ==
    /\ home.showCropper /\ home.clicks < MaxClicks
    /\ HasFreeJob
    /\ home' = Clicked([home EXCEPT !.showCropper = FALSE, !.loading = TRUE])
    /\ jobs' = [jobs EXCEPT ![FreeSlot] =
                   [FreeJob EXCEPT !.pc = "cropFetch", !.type = home.cropperType,
                                   !.removeBg = home.removeBackgroundOption]]
    /\ homeFrame

\* lines 449-459: the cropped file is stored and handed to the submit
\* handler of the closure, which runs up to its first await
cropFetched(j) ==
    /\ jobs[j].pc = "cropFetch"
    /\ LET file == CroppedFile(jobs[j].type)
           h1 == IF jobs[j].type = "logo"
                 THEN [home EXCEPT !.logoFile = file]
                 ELSE [home EXCEPT !.headshotFile = file]
           r == submitStart(h1, jobs[j], jobs[j].type, file, jobs[j].removeBg)
       IN  /\ home' = r.home
           /\ jobs' = [jobs EXCEPT ![j] = r.job]
    /\ homeFrame

\* removeBackgroundAI (imageManipulation.js lines 129-160) resolved
keyingResolved(j) ==
    /\ jobs[j].pc = "keying" /\ jobs[j].file.kind = "good"
    /\ jobs' = [jobs EXCEPT ![j].pc = "keyFetch"]
    /\ UNCHANGED home
    /\ homeFrame

\* removeBackgroundAI rejected (img.onerror, line 156): catch and finally
keyingRejected(j) ==
    /\ jobs[j].pc = "keying" /\ jobs[j].file.kind = "undecodable"
    /\ home' = submitRejected(home, jobs[j])
    /\ jobs' = [jobs EXCEPT ![j] = FreeJob]
    /\ homeFrame

\* removeBackground threw inside img.onload (lines 131-140 have no try):
\* the promise of removeBackgroundAI is never settled and the handler stays
\* at its await
keyingThrew(j) ==
    /\ jobs[j].pc = "keying" /\ jobs[j].file.kind = "empty"
    /\ jobs' = [jobs EXCEPT ![j].pc = "hung"]
    /\ UNCHANGED home
    /\ homeFrame

\* lines 494-505: fetch and blob of the keyed data URL, then processLogo /
\* processHeadshot is called
keyFetched(j) ==
    /\ jobs[j].pc = "keyFetch"
    /\ jobs' = [jobs EXCEPT ![j].pc = "processing",
                            ![j].processedFile = fileForProcess(jobs[j])]
    /\ UNCHANGED home
    /\ homeFrame

\* processLogo / processHeadshot resolved (an image of width 0 resolves too)
processResolved(j) ==
    /\ jobs[j].pc = "processing"
    /\ jobs[j].processedFile.kind \in {"good", "empty"}
    /\ home' = submitResolved(home, jobs[j])
    /\ jobs' = [jobs EXCEPT ![j] = FreeJob]
    /\ homeFrame

\* processLogo / processHeadshot rejected
processRejected(j) ==
    /\ jobs[j].pc = "processing"
    /\ jobs[j].processedFile.kind = "undecodable"
    /\ home' = submitRejected(home, jobs[j])
    /\ jobs' = [jobs EXCEPT ![j] = FreeJob]
    /\ homeFrame

\* the steps of the call in slot j
JobStep(j) ==
    \/ cropFetched(j)
    \/ keyingResolved(j)
    \/ keyingRejected(j)
    \/ keyingThrew(j)
    \/ keyFetched(j)
    \/ processResolved(j)
    \/ processRejected(j)

\* lines 567-574, from the Copy buttons shown with the results of the
\* active tab; navigator.clipboard.writeText resolves or rejects
copyToClipboard ==
    /\ TabsShown
    /\ (IF home.activeTab = "logo" THEN home.logoResults
                                   ELSE home.headshotResult) # NoFile
    /\ \/ /\ home.timers < MaxTimers
          /\ home' = Clicked([home EXCEPT !.success = "Copied to clipboard!",
                                          !.timers = @ + 1])
       \/ home' = Clicked([home EXCEPT !.error = "Failed to copy: "])
    /\ UNCHANGED jobs
    /\ homeFrame

\* line 570: setTimeout(() => setSuccess(null), 2000)
copyTimeout ==
    /\ home.timers > 0
    /\ home' = [home EXCEPT !.success = "null", !.timers = @ - 1]
    /\ UNCHANGED jobs
    /\ homeFrame

NextHome ==
    \/ handleLogoChange
    \/ handleHeadshotChange
    \/ setActiveTab
    \/ setRemoveBackgroundOption
    \/ handleLogoSubmit
    \/ handleHeadshotSubmit
    \/ handleCrop
    \/ handleCropCancel
    \/ handleCropComplete
    \/ \E j \in 1..MaxJobs : JobStep(j)
    \/ copyToClipboard
    \/ copyTimeout

SpecHome == InitHome /\ [][NextHome]_vars

\* every load-or-error callback and every settled await eventually runs
SpecHomeFair ==
    /\ InitHome /\ [][NextHome]_vars
    /\ \A j \in 1..MaxJobs : WF_vars(JobStep(j))

\* =================================================================
\* Canvas geometry claims (checked under SpecFit)
\* =================================================================
Abs(n) == IF n >= 0 THEN n ELSE 0 - n

\* C1: for every source size, the canvas of createRectangularLogo(2.5, 400,
\* 160) has width * 2 = height * 5 as an exact integer equality.
C1_RectExactRatio ==
    variant = "rectangular" => out.width * 2 = out.height * 5

\* a 1x161 source: the base box 403x161 is not 5:2 and is snapped to 405x162
C1_Witness ==
    /\ variant = "rectangular" /\ runs = 1
    /\ img = Dim(1, 161)
    /\ out.width = 405 /\ out.height = 162

\* C2 (as claimed): for every source size, the canvas of createHeadshot(292,
\* 400, [73, 100]) has width * 100 = height * 73 as an exact integer equality.
C2_HeadshotExactRatio ==
    variant = "headshot" => out.width * 100 = out.height * 73

\* C3: the canvas of each padding variant meets its profile minimum:
\* rectangular >= 400x160, square >= 40x40, headshot >= 292x400.
C3_MeetsMinimum ==
    /\ variant = "rectangular" =>
          out.width >= LogoMinWidth /\ out.height >= LogoMinHeight
    /\ variant = "square" =>
          out.width >= SquareMinSize /\ out.height >= SquareMinSize
    /\ variant = "headshot" =>
          out.width >= HeadMinWidth /\ out.height >= HeadMinHeight

\* a 10x10 source is raised to the 400x160 minimum
C3_Witness ==
    /\ variant = "rectangular" /\ runs = 1
    /\ img = Dim(10, 10)
    /\ out.width = 400 /\ out.height = 160

\* C4: the canvas of the rectangular, square and headshot variants is at
\* least as large as the source in both dimensions, so both centring offsets
\* are >= 0 and no source pixel is clipped.
C4_ContainsSource ==
    variant \in {"rectangular", "square", "headshot"} =>
        /\ out.width >= img.width
        /\ out.height >= img.height
        /\ out.x >= 0 /\ out.y >= 0
        /\ out.x + img.width <= out.width
        /\ out.y + img.height <= out.height

\* a 411x300 source above both minimums: canvas 750x300, drawn at (169, 0)
C4_Witness ==
    /\ variant = "rectangular" /\ runs = 1
    /\ img = Dim(411, 300)
    /\ out.width = 750 /\ out.height = 300
    /\ out.x = 169 /\ out.y = 0

\* C5: the canvas of createRectangularLogo(2.5, 400, 160) is (5u, 2u) for the
\* least u with 5u >= w, 2u >= h and u >= 80, i.e. the smallest exact 5:2
\* canvas that contains the source and meets both minimums.
C5_RectSmallestCanvas ==
    variant = "rectangular" =>
        \E u \in 80..(img.width + img.height + 80) :
            /\ out.width = 5 * u /\ out.height = 2 * u
            /\ 5 * u >= img.width /\ 2 * u >= img.height
            /\ u = 80 \/ 5 * (u - 1) < img.width \/ 2 * (u - 1) < img.height

\* the documented example: a source 800x200 gives the canvas 800x320
C5_Witness ==
    /\ variant = "rectangular" /\ runs = 1
    /\ img = Dim(800, 200)
    /\ out.width = 800 /\ out.height = 320

\* C6: idempotence of the logo fits: running createRectangularLogo or
\* createSquareLogo on a source of the size of its own canvas gives the same
\* canvas again.
C6_LogoIdempotent ==
    (runs = 2 /\ variant \in {"rectangular", "square"}) =>
        out.width = prev.width /\ out.height = prev.height

\* the canvas 405x162 (from a source such as 1x161) fed back stays 405x162
C6_Witness ==
    /\ runs = 2 /\ variant = "rectangular"
    /\ img = Dim(405, 162)
    /\ prev.width = 405 /\ prev.height = 162
    /\ out.width = 405 /\ out.height = 162

\* C7 (as claimed): idempotence of the headshot fit: running createHeadshot
\* on a source of the size of its own canvas gives the same canvas again.
C7_HeadshotIdempotent ==
    (runs = 2 /\ variant = "headshot") =>
        out.width = prev.width /\ out.height = prev.height

\* C8: every source with w <= 292 and h <= 400 gets a canvas of exactly
\* 292x400, from both versions of createHeadshot.
C8_SmallHeadshotCanvas ==
    (/\ variant \in {"headshot", "headshotCropper"}
     /\ img.width <= HeadMinWidth /\ img.height <= HeadMinHeight) =>
        out.width = 292 /\ out.height = 400

\* the documented example: a source 50x80 gives 292x400 (the CropperComponent
\* version first builds a 73x100 canvas and resamples it)
C8_Witness ==
    /\ variant = "headshotCropper" /\ runs = 1
    /\ img = Dim(50, 80)
    /\ out.baseWidth = 73 /\ out.baseHeight = 100 /\ out.scaled
    /\ out.width = 292 /\ out.height = 400

\* C9 (as claimed): the canvas of createHeadshot has a ratio within 0.0001 of
\* 73/100, i.e. |100 W - 73 H| * 10000 <= 100 H, whether or not the
\* minimum-enforcement branch was taken.
C9_HeadshotRatioTolerance ==
    variant = "headshot" =>
        Abs(100 * out.width - 73 * out.height) * 10000 <= 100 * out.height

\* C14: createIcoFromSquare always makes a 64x64 canvas and draws the source
\* scaled by the single factor min(64/w, 64/h), each side rounded, centred
\* with floor: the longer side is exactly 64, neither side exceeds 64 and
\* the drawn rectangle lies inside the canvas.
C14_IcoScaledToFit ==
    variant = "ico" =>
        LET long == IF img.width >= img.height THEN img.width ELSE img.height
        IN  /\ out.width = 64 /\ out.height = 64
            \* each side is within one half of side * 64 / long
            /\ Abs(out.drawWidth * long - 64 * img.width) * 2 <= long
            /\ Abs(out.drawHeight * long - 64 * img.height) * 2 <= long
            /\ (IF img.width >= img.height THEN out.drawWidth ELSE out.drawHeight) = 64
            /\ out.drawWidth <= 64 /\ out.drawHeight <= 64
            /\ 2 * out.x <= 64 - out.drawWidth /\ 64 - out.drawWidth <= 2 * out.x + 1
            /\ 2 * out.y <= 64 - out.drawHeight /\ 64 - out.drawHeight <= 2 * out.y + 1
            /\ out.x >= 0 /\ out.y >= 0
            /\ out.x + out.drawWidth <= 64 /\ out.y + out.drawHeight <= 64

\* the documented example: a 1000x10 source is drawn 64x1 at x = 0, y = 31
C14_Witness ==
    /\ variant = "ico" /\ img = Dim(1000, 10)
    /\ out.width = 64 /\ out.height = 64
    /\ out.drawWidth = 64 /\ out.drawHeight = 1
    /\ out.x = 0 /\ out.y = 31

\* C20 (as claimed): createHeadshot of CropperComponent.js only pads and
\* never scales: for every source size the source appears in the output at
\* its original pixel size.
C20_CropperNeverScales ==
    variant = "headshotCropper" =>
        /\ ~out.scaled
        /\ out.drawWidth = img.width /\ out.drawHeight = img.height

\* C21 (as claimed): in createHeadshot of CropperComponent.js the first
\* canvas (baseWidth x baseHeight) is at least as large as the source in both
\* dimensions, so the centring offsets x and y are >= 0 and no source row or
\* column is clipped.
C21_CropperContainsSource ==
    variant = "headshotCropper" =>
        /\ out.baseWidth >= img.width
        /\ out.baseHeight >= img.height
        /\ out.x >= 0 /\ out.y >= 0

\* C23: in createRectangularLogo(2.5, 400, 160) neither the odd-height
\* correction branch nor the ratio warning branch is entered, for any source
\* size w >= 1, h >= 1.
C23_SnapBranchesDead ==
    (variant = "rectangular" /\ img.width >= 1 /\ img.height >= 1) =>
        ~out.oddFix /\ ~out.warned

\* a 1x161 source: the base box 403x161 is snapped to 405x162 by the
\* multiple-of-5 step alone, with neither correction branch taken
C23_Witness ==
    /\ variant = "rectangular" /\ runs = 1
    /\ img = Dim(1, 161)
    /\ out.width = 405 /\ out.height = 162
    /\ ~out.oddFix /\ ~out.warned

\* C24 (as claimed): in createIcoFromSquare both scaled dimensions are at
\* least 1 for every source size w >= 1, h >= 1, so the source is never drawn
\* with zero width or zero height.
C24_IcoScaledPositive ==
    (variant = "ico" /\ img.width >= 1 /\ img.height >= 1) =>
        out.drawWidth >= 1 /\ out.drawHeight >= 1

\* =================================================================
\* Colour keyer claims (checked under SpecKey)
\* =================================================================
PixelsOf(b) == 0..(b.width * b.height - 1)

\* C10: removeBackground classifies every pixel independently: a pixel whose
\* squared RGB distance to the target is below tolerance^2 (tolerance >= 0)
\* gets alpha 0, any other pixel keeps its alpha, and the R, G, B samples of
\* every pixel are unchanged.
C10_PerPixelKeying ==
    keyed # NoBitmap =>
        LET t == targetRGB(keyOpts.targetColor)
        IN  /\ Len(keyed.data) = Len(bitmap.data)
            /\ \A p \in PixelsOf(bitmap) :
                 LET R == bitmap.data[4 * p + 1]
                     G == bitmap.data[4 * p + 2]
                     B == bitmap.data[4 * p + 3]
                     A == bitmap.data[4 * p + 4]
                     d2 == (R - t.r) * (R - t.r) + (G - t.g) * (G - t.g)
                           + (B - t.b) * (B - t.b)
                 IN  /\ keyed.data[4 * p + 1] = R
                     /\ keyed.data[4 * p + 2] = G
                     /\ keyed.data[4 * p + 3] = B
                     /\ keyed.data[4 * p + 4] =
                          IF d2 < keyOpts.tolerance * keyOpts.tolerance THEN 0 ELSE A

\* target #030400: black is at distance exactly 5.  With tolerance 5 black is
\* kept, while the pixel of the target colour itself is keyed.
C10_Witness ==
    /\ keyOpts = [targetColor |-> <<"#", "0", "3", "0", "4", "0", "0">>,
                  tolerance |-> 5]
    /\ bitmap.data = <<0, 0, 0, 255, 3, 4, 0, 255>>
    /\ keyed.data = <<0, 0, 0, 255, 3, 4, 0, 0>>

\* the colour a target string names, written out for the checked targets
NamedRGB(c) ==
    CASE c = <<"#", "F", "F", "F", "F", "F", "F">> -> <<255, 255, 255>>
      [] c = <<"#", "0", "0", "0", "0", "0", "0">> -> <<0, 0, 0>>
      [] c = <<"#", "0", "3", "0", "4", "0", "0">> -> <<3, 4, 0>>
      [] c = <<"#", "f", "a", "f", "a", "f", "a">> -> <<250, 250, 250>>

PixelRGB(b, p) == <<b.data[4 * p + 1], b.data[4 * p + 2], b.data[4 * p + 3]>>

\* C11 (as claimed): for every tolerance >= 0, tolerance 0 included, a pixel
\* whose R, G, B equal the target colour has alpha 0 after removeBackground.
C11_ExactColourKeyed ==
    (keyed # NoBitmap /\ keyOpts.tolerance >= 0) =>
        \A p \in PixelsOf(bitmap) :
            PixelRGB(bitmap, p) = NamedRGB(keyOpts.targetColor) =>
                keyed.data[4 * p + 4] = 0

\* C11 (amended): for every tolerance > 0, a pixel whose R, G, B equal the
\* target colour has alpha 0 after removeBackground.
C11_ExactColourKeyedPositive ==
    (keyed # NoBitmap /\ keyOpts.tolerance > 0) =>
        \A p \in PixelsOf(bitmap) :
            PixelRGB(bitmap, p) = NamedRGB(keyOpts.targetColor) =>
                keyed.data[4 * p + 4] = 0

\* target #030400, tolerance 5: the opaque pixel (3, 4, 0) becomes transparent
C11_Witness ==
    /\ keyedBefore = NoKeyedBefore
    /\ keyOpts = [targetColor |-> <<"#", "0", "3", "0", "4", "0", "0">>,
                  tolerance |-> 5]
    /\ bitmap.data = <<3, 4, 0, 255>>
    /\ keyed.data = <<3, 4, 0, 0>>

\* C12: removeBackground preserves the dimensions: the output canvas has the
\* width and the height of the input and as many pixels.
C12_KeyerKeepsDimensions ==
    keyed # NoBitmap =>
        /\ keyed.width = bitmap.width
        /\ keyed.height = bitmap.height
        /\ Len(keyed.data) = 4 * bitmap.width * bitmap.height
        /\ Len(keyed.data) = Len(bitmap.data)

\* a 1 wide, 3 high bitmap stays 1 wide, 3 high
C12_Witness ==
    /\ bitmap.width = 1 /\ bitmap.height = 3
    /\ keyed.width = 1 /\ keyed.height = 3
    /\ Len(keyed.data) = 12

\* C13: removeBackground is monotone in the tolerance: for the same bitmap
\* and target and tolerances t1 <= t2, every pixel with alpha 0 after the
\* run with t1 has alpha 0 after the run with t2.
C13_MonotoneInTolerance ==
    (keyedBefore # NoKeyedBefore /\ keyedBefore.tolerance <= keyOpts.tolerance) =>
        \A p \in PixelsOf(bitmap) :
            keyedBefore.data[4 * p + 4] = 0 => keyed.data[4 * p + 4] = 0

\* target white: tolerance 5 keys only the white pixel, tolerance 30 also the
\* near-white one
C13_Witness ==
    /\ keyOpts = [targetColor |-> <<"#", "F", "F", "F", "F", "F", "F">>,
                  tolerance |-> 30]
    /\ keyedBefore.tolerance = 5
    /\ bitmap.data = <<255, 255, 255, 255, 250, 250, 250, 200>>
    /\ keyedBefore.data = <<255, 255, 255, 0, 250, 250, 250, 200>>
    /\ keyed.data = <<255, 255, 255, 0, 250, 250, 250, 0>>

\* =================================================================
\* processLogo / processHeadshot claims (checked under SpecProcess)
\* =================================================================
Fulfilled(k) == run.kind = k /\ promise.state = "fulfilled"

\* C15 (as claimed): the favicon result of processLogo contains renditions
\* at all three sizes 40x40, 48x48 and 64x64.
C15_FaviconThreeSizes ==
    (Fulfilled("logo") /\ promise.value.ico # Null) =>
        {<<40, 40>>, <<48, 48>>, <<64, 64>>} \subseteq promise.value.ico.images

\* C16: processLogo is all-or-nothing: after a read or decode failure or a
\* throwing create* call the promise is rejected and never fulfilled with a
\* partial result; fulfilled with square and ico requested, all three
\* variants are non-null; resolve/reject is called at most once.
C16_AllOrNothing ==
    run.kind = "logo" =>
        /\ run.failed => promise.state = "rejected"
        /\ promise.state = "fulfilled" =>
              /\ promise.value = run.partial
              /\ promise.value.rectangular # Null
              /\ (run.opts.square /\ run.opts.ico) =>
                    promise.value.square # Null /\ promise.value.ico # Null
        /\ promise.calls <= 1
        /\ run.pc = "end" => promise.state \in {"fulfilled", "rejected"}

\* createIcoFromSquare throws after the rectangular and the square logo were
\* made: the promise is rejected
C16_Witness ==
    /\ run.kind = "logo" /\ run.pc = "end" /\ run.failed
    /\ run.partial.rectangular # Null /\ run.partial.square # Null
    /\ run.partial.ico = Null
    /\ promise.state = "rejected" /\ promise.calls = 1

\* C17 (as claimed): a source whose width or height is 0 is rejected with an
\* error before any canvas dimensions are set; no output image is produced.
C17_ZeroSizeRejected ==
    (run.file.width <= 0 \/ run.file.height <= 0) =>
        /\ run.partial = NoValue
        /\ promise.state # "fulfilled"
        /\ run.pc = "end" => promise.state = "rejected"

\* C18 (as claimed): when processLogo resolves, square is non-null exactly
\* when options.square is true and ico is non-null exactly when options.ico
\* is true, whatever the other option.
C18_OptionsIndependent ==
    Fulfilled("logo") =>
        /\ (promise.value.square # Null) <=> run.opts.square
        /\ (promise.value.ico # Null) <=> run.opts.ico

\* C19: the padding follows the background mode: in one processLogo call the
\* same transparent flag reaches the rectangular, square and favicon canvas,
\* whose whole area is cleared (alpha 0) when it is true and filled white
\* when it is false; processHeadshot always fills the whole canvas white.
C19_FillFollowsMode ==
    /\ Fulfilled("logo") =>
          \A r \in {promise.value.rectangular, promise.value.square,
                    promise.value.ico} :
              r # Null =>
                  /\ r.fill.mode = IF run.opts.transparent THEN "transparent"
                                                           ELSE "white"
                  /\ r.fill.width = r.canvas.width
                  /\ r.fill.height = r.canvas.height
    /\ Fulfilled("headshot") =>
          /\ promise.value.headshot.fill.mode = "white"
          /\ promise.value.headshot.fill.width = promise.value.headshot.canvas.width
          /\ promise.value.headshot.fill.height = promise.value.headshot.canvas.height

\* a 100x100 logo with transparent = true: all three canvases are cleared
C19_Witness ==
    /\ Fulfilled("logo") /\ run.opts.transparent
    /\ img = Dim(100, 100)
    /\ promise.value.rectangular.fill = [mode |-> "transparent", width |-> 400, height |-> 160]
    /\ promise.value.square.fill = [mode |-> "transparent", width |-> 100, height |-> 100]
    /\ promise.value.ico.fill = [mode |-> "transparent", width |-> 64, height |-> 64]

\* =================================================================
\* ImageCropper claims (checked under SpecCropper)
\* =================================================================
\* C25: from the crop area set by initCropArea on, after any sequence of
\* mouse-down, mouse-move and mouse-up events the crop area has x >= 0,
\* y >= 0, x + width <= imageSize.width and y + height <= imageSize.height.
C25_CropInsideImage ==
    cropper.loaded =>
        /\ cropper.cropArea.x >= 0
        /\ cropper.cropArea.y >= 0
        /\ cropper.cropArea.x + cropper.cropArea.width <= cropper.imageSize.width
        /\ cropper.cropArea.y + cropper.cropArea.height <= cropper.imageSize.height

\* a 100x80 image: the box (10, 8, 80, 64) is moved by (+20, +20) and stopped
\* at the right and bottom edge
C25_Witness ==
    /\ cropper.loaded /\ cropper.event = "mousemove"
    /\ cropper.resizing = "null" /\ cropper.isDragging
    /\ cropper.imageSize = Dim(100, 80)
    /\ cropper.cropArea = Rect(20, 16, 80, 64)

\* C26 (as claimed): after every resize step (a mouse-move while a handle is
\* dragged) the crop area has width >= 50 and height >= 50.
C26_ResizeKeepsMinimum ==
    (/\ cropper.loaded /\ cropper.event = "mousemove"
     /\ cropper.isDragging /\ cropper.resizing # "null") =>
        cropper.cropArea.width >= 50 /\ cropper.cropArea.height >= 50

\* C27: a mouse-move while isDragging is false changes no state; a
\* mouse-move while the box body is dragged (resizing null) changes only x
\* and y (and the drag origin), never width and height; mouse-up sets
\* isDragging to false and resizing to null and leaves cropArea unchanged.
C27_MouseFrame ==
    [][/\ (cropper'.event = "mousemove" /\ ~cropper.isDragging) =>
             /\ cropper'.cropArea = cropper.cropArea
             /\ cropper'.dragStart = cropper.dragStart
             /\ cropper'.resizing = cropper.resizing
             /\ cropper'.isDragging = cropper.isDragging
       /\ (/\ cropper'.event = "mousemove"
           /\ cropper.isDragging /\ cropper.resizing = "null") =>
             /\ cropper'.cropArea.width = cropper.cropArea.width
             /\ cropper'.cropArea.height = cropper.cropArea.height
             /\ cropper'.isDragging /\ cropper'.resizing = "null"
             /\ cropper'.imageSize = cropper.imageSize
       /\ cropper'.event = "mouseup" =>
             /\ ~cropper'.isDragging
             /\ cropper'.resizing = "null"
             /\ cropper'.cropArea = cropper.cropArea
             /\ cropper'.imageSize = cropper.imageSize]_vars

\* the pointer went down at (0, 0) and up again: a later move to (40, 40)
\* leaves the box of the 100x80 image where initCropArea put it
C27_Witness ==
    /\ cropper.loaded /\ cropper.event = "mousemove"
    /\ ~cropper.isDragging /\ cropper.resizing = "null"
    /\ cropper.dragStart = [x |-> 0, y |-> 0]
    /\ cropper.imageSize = Dim(100, 80)
    /\ cropper.cropArea = Rect(10, 8, 80, 64)

\* =================================================================
\* Home claims (checked under SpecHome, C28 under SpecHomeFair)
\* =================================================================
\* C22: when the remove-background option is on, a submit handler has
\* completed its one removeBackgroundAI call before it starts processLogo /
\* processHeadshot and hands over the keyed image, never the original; when
\* the option is off, removeBackgroundAI is not called and the selected file
\* itself is handed over.
C22_KeyingBeforeFitting ==
    \A j \in 1..MaxJobs :
        /\ jobs[j].pc = "processing" =>
              IF jobs[j].removeBg
              THEN /\ jobs[j].keyCalls = 1
                   /\ jobs[j].processedFile.keyed
                   /\ jobs[j].processedFile.name = jobs[j].file.name
              ELSE /\ jobs[j].keyCalls = 0
                   /\ jobs[j].processedFile = jobs[j].file
        /\ jobs[j].pc \in {"keying", "keyFetch", "hung"} =>
              jobs[j].removeBg /\ jobs[j].processedFile = NoFile

\* with the option on, processLogo runs on the keyed a.png
C22_Witness ==
    \E j \in 1..MaxJobs :
        /\ jobs[j].pc = "processing" /\ jobs[j].type = "logo"
        /\ jobs[j].removeBg /\ jobs[j].keyCalls = 1
        /\ jobs[j].file = [name |-> "a.png", kind |-> "good", keyed |-> FALSE]
        /\ jobs[j].processedFile = [name |-> "a.png", kind |-> "good", keyed |-> TRUE]

\* C28 (as claimed): every started run of handleLogoSubmit,
\* handleHeadshotSubmit or handleCropComplete eventually ends with loading
\* set back to false, whether processing succeeds or a step fails, given
\* that every callback eventually fires; a submit with no file selected sets
\* an error and does not set loading to true.
C28_LoadingReleased ==
    /\ \A j \in 1..MaxJobs :
          (jobs[j].pc # "free") ~> (jobs[j].pc = "free" /\ ~home.loading)
    /\ [](\A type \in {"logo", "headshot"} :
            LET r == submitStart(home, FreeJob, type, NoFile,
                                 home.removeBackgroundOption)
            IN  /\ r.home.error # "null"
                /\ r.home.loading = home.loading
                /\ r.job = FreeJob)

\* C29 (as claimed): the error message and the success message are never
\* both non-null.
C29_ErrorXorSuccess ==
    ~(home.error # "null" /\ home.success # "null")

\* C30 (as claimed): whenever logoResults is non-null it was computed from
\* the currently selected logoFile.
C30_ResultsOfSelectedFile ==
    home.logoResults # NoFile => home.logoResults.name = home.logoFile.name

====
